---- MODULE Spec2Model ----
(***************************************************************************)
(* TrindadeGovernor (src/governor.py): a risk-gated action ledger.  Every  *)
(* executed action is recorded as a canonical JSON record signed with      *)
(* HMAC-SHA256 in the SQLite table `traces`; verify_audit_integrity        *)
(* recomputes every stored signature under the verifying governor's key.   *)
(*                                                                         *)
(* Python values are modelled as follows.                                  *)
(*   Optional[str]   a sequence of length <= 1: None is << >>, the string  *)
(*                   s is <<s>> (so None and "" stay distinct values)      *)
(*   dict            a sequence of <<key, value>> pairs in insertion order *)
(*   JSON text       the sequence of <<key, value>> pairs as serialised    *)
(*   hex digest      a record naming the digest's inputs (an ideal,        *)
(*                   collision-free MAC / hash) plus the number of         *)
(*                   characters altered in storage                         *)
(***************************************************************************)
EXTENDS Naturals, Sequences, FiniteSets, TLC

VARIABLES
    govs,      \* the TrindadeGovernor instances constructed so far
    traces,    \* rows of the SQLite table `traces`, in rowid order
    seq,       \* sqlite_sequence: the largest rowid AUTOINCREMENT ever used
    ret,       \* the last call: operation, governor, arguments, outcome
    tampers,   \* number of direct alterations of the stored table
    calls      \* the execute_action calls in progress (concurrent callers)

vars == <<govs, traces, seq, ret, tampers, calls>>

---------------------------------------------------------------------------
(* Bounds of the model *)

MaxGov == 2
MaxLedger == 3
MaxTamper == 1
MaxCalls == 2

---------------------------------------------------------------------------
(* class RiskLevel(IntEnum) *)

WILD == 0
DECLARED == 1
TRACEABLE == 2
CONSTRAINED == 3
LIABLE == 4
SOVEREIGN == 5

---------------------------------------------------------------------------
(* Inputs *)

None == << >>
Some(s) == <<s>>

AgentIds == {"a1", "a2"}
SecretKeys == {"", "k1", "k2"}
LiabilityLinks == {None, Some(""), Some("L1")}

\* The constructor calls explored: <<agent_id, secret_key, liability_link>>.
\* They cover two agents under one key, two keys, the empty key, and a
\* liability link that is None, empty and non-empty.
CtorArgs ==
    { <<"a1", "k1", None>>,
      <<"a1", "k1", Some("L1")>>,
      <<"a2", "k1", Some("")>>,
      <<"a2", "k1", None>>,
      <<"a2", "k2", None>>,
      <<"a2", "", Some("L1")>> }

Objectives == {"", "x"}
ActionNames == {"A", "B"}
Payloads == {"p"}
Nonces == {"n1"}
Times == {1}

\* Python truthiness of an Optional[str]: None and "" are both falsy.
Truthy(o) == o # None /\ o[1] # ""

---------------------------------------------------------------------------
(* Digests *)

\* hashlib.sha256(s.encode()).hexdigest()
Sha256(s) == [alg |-> "sha256", key |-> "", msg |-> s, flips |-> 0]

\* hmac.new(key, msg.encode(), hashlib.sha256).hexdigest()
HmacSha256(key, msg) == [alg |-> "hmac-sha256", key |-> key, msg |-> msg, flips |-> 0]

\* hmac.compare_digest(a, b): equality of the two strings
compare_digest(a, b) == a = b

---------------------------------------------------------------------------
(* json.dumps(data, sort_keys=True) *)

\* Rank of the record's keys in lexicographic order.
KeyRank(k) ==
    CASE k = "act" -> 1
      [] k = "aid" -> 2
      [] k = "lib" -> 3
      [] k = "nonce" -> 4
      [] k = "pay" -> 5
      [] k = "res" -> 6
      [] k = "t" -> 7

\* The pairs of `data` ordered by key.
JsonDumps(data) ==
    [i \in 1..Len(data) |->
        data[CHOOSE j \in 1..Len(data) :
            Cardinality({m \in 1..Len(data) : KeyRank(data[m][1]) < KeyRank(data[j][1])}) = i - 1]]

\* json.loads(text)[k]: the value stored under key k in a serialised record.
JsonGet(text, k) == text[CHOOSE j \in 1..Len(text) : text[j][1] = k][2]

---------------------------------------------------------------------------
(* TrindadeGovernor *)

\* __init__: the fields of a new instance (intent_declared starts as None).
NewGovernor(agent_id, secret_key, liability_link) ==
    [agent_id |-> agent_id,
     secret |-> secret_key,
     liability_link |-> liability_link,
     intent_declared |-> None]

\* _sign_payload(self, payload)
SignPayload(self, payload) == HmacSha256(self.secret, payload)

\* Variant of TraceData: the action name and the payload stored under each
\* other's key.
TraceData_swapped(self, action, payload, result, t, nonce) ==
    << <<"t", t>>,
       <<"nonce", nonce>>,
       <<"aid", self.agent_id>>,
       <<"act", payload>>,
       <<"pay", action>>,
       <<"res", Sha256(result)>>,
       <<"lib", self.liability_link>> >>

\* _generate_trace: the dict `data`, in the order the code writes its keys.
TraceData(self, action, payload, result, t, nonce) ==
    << <<"t", t>>,
       <<"nonce", nonce>>,
       <<"aid", self.agent_id>>,
       <<"act", action>>,
       <<"pay", payload>>,
       <<"res", Sha256(result)>>,
       <<"lib", self.liability_link>> >>

\* Variant of SignedTrace: the signature is computed over the dict's pairs in
\* insertion order, while the stored text has its keys sorted.
SignedTrace_unsorted(self, action, payload, result, t, nonce) ==
    LET data == TraceData(self, action, payload, result, t, nonce)
    IN  [entry |-> JsonDumps(data), signature |-> SignPayload(self, data)]

\* _generate_trace: the (entry, signature) pair handed to INSERT.
SignedTrace(self, action, payload, result, t, nonce) ==
    LET json_data == JsonDumps(TraceData(self, action, payload, result, t, nonce))
    IN  [entry |-> json_data, signature |-> SignPayload(self, json_data)]

\* Variant of InsertRow: INSERT OR REPLACE under a rowid that is reused, so
\* the newest row takes the place of the last one.
InsertRow_overwrite(table, lastid, row) ==
    LET new == [id |-> lastid + 1, entry |-> row.entry, signature |-> row.signature]
    IN  IF table = << >> THEN <<new>> ELSE [table EXCEPT ![Len(table)] = new]

\* Variant of InsertRow: the row becomes visible with its record written
\* and its signature column not yet filled in.
InsertRow_torn(table, lastid, row) ==
    Append(table, [id |-> lastid + 1, entry |-> row.entry,
                   signature |-> [row.signature EXCEPT !.msg = << >>]])

\* INSERT INTO traces (entry, signature): the table after a committed insert.
\* AUTOINCREMENT gives the row the rowid one above the largest ever used.
InsertRow(table, lastid, row) ==
    Append(table, [id |-> lastid + 1, entry |-> row.entry, signature |-> row.signature])

\* Variant of NextSeq: the rowid of a rolled-back INSERT is not given back.
NextSeq_consumed(lastid, ok) == lastid + 1

\* sqlite_sequence after an INSERT that committed (ok) or was rolled back.
NextSeq(lastid, ok) == IF ok THEN lastid + 1 ELSE lastid

\* Variant of FirstMismatch: only the result of the last comparison is kept.
FirstMismatch_last_only(self, table, i) ==
    IF Len(table) = 0 THEN 0
    ELSE IF ~compare_digest(SignPayload(self, table[Len(table)].entry),
                            table[Len(table)].signature) THEN Len(table)
    ELSE 0

\* Variant of FirstMismatch: the scan starts one row late.
FirstMismatch_skip_first(self, table, i) ==
    LET bad == {j \in (i + 1)..Len(table) :
                    ~compare_digest(SignPayload(self, table[j].entry), table[j].signature)}
    IN  IF bad = {} THEN 0 ELSE CHOOSE j \in bad : \A m \in bad : j <= m

\* verify_audit_integrity: the loop over the cursor from row i on.  It stops
\* at the first row whose recomputed signature differs from the stored one
\* (the value is that row's position), or runs to the end (the value is 0).
RECURSIVE FirstMismatch(_, _, _)
FirstMismatch(self, table, i) ==
    IF i > Len(table) THEN 0
    ELSE IF ~compare_digest(SignPayload(self, table[i].entry), table[i].signature) THEN i
    ELSE FirstMismatch(self, table, i + 1)

\* Variant of verify_audit_integrity: only the rows that carry the
\* governor's own agent id are compared.
verify_audit_integrity_own_rows(self, table) ==
    \A i \in 1..Len(table) :
        JsonGet(table[i].entry, "aid") = self.agent_id =>
            compare_digest(SignPayload(self, table[i].entry), table[i].signature)

\* verify_audit_integrity(self): False at the first mismatch, else True.
verify_audit_integrity(self, table) == FirstMismatch(self, table, 1) = 0

\* The number of rows the loop of verify_audit_integrity compares.
RowsExamined(self, table) ==
    IF FirstMismatch(self, table, 1) = 0 THEN Len(table) ELSE FirstMismatch(self, table, 1)

\* The rowids verify_audit_integrity hands to its caller: it returns a bare
\* bool, so none.
ReportedSequences(self, table) == {}

\* Variant of assign_risk: the history is consulted first, and intent only
\* when the ledger is empty.
assign_risk_history_first(self, table) ==
    IF Len(table) = 0
    THEN IF ~Truthy(self.intent_declared) THEN WILD ELSE DECLARED
    ELSE IF ~Truthy(self.liability_link) THEN TRACEABLE
    ELSE LIABLE

\* Variant of assign_risk: the history counts as empty up to one row.
assign_risk_off_by_one(self, table) ==
    IF ~Truthy(self.intent_declared) THEN WILD
    ELSE IF Len(table) <= 1 THEN DECLARED
    ELSE IF ~Truthy(self.liability_link) THEN TRACEABLE
    ELSE LIABLE

\* Variant of assign_risk: the liability test is inverted.
assign_risk_link_inverted(self, table) ==
    IF ~Truthy(self.intent_declared) THEN WILD
    ELSE IF Len(table) = 0 THEN DECLARED
    ELSE IF Truthy(self.liability_link) THEN TRACEABLE
    ELSE LIABLE

\* assign_risk(self), reading COUNT(*) from the table.
assign_risk(self, table) ==
    IF ~Truthy(self.intent_declared) THEN WILD
    ELSE IF Len(table) = 0 THEN DECLARED
    ELSE IF ~Truthy(self.liability_link) THEN TRACEABLE
    ELSE LIABLE

\* execute_action: result = f"OK_{action_name}"
ActionResult(action_name) == "OK_" \o action_name

---------------------------------------------------------------------------
(* Calls, each a whole handler *)

Init ==
    /\ govs = << >>
    /\ traces = << >>
    /\ seq = 0
    /\ ret = [op |-> "start"]
    /\ tampers = 0
    /\ calls = << >>

\* TrindadeGovernor(agent_id, secret_key, liability_link): __init__ and
\* _init_db (CREATE TABLE IF NOT EXISTS leaves an existing table as it is).
Construct(agent_id, secret_key, liability_link) ==
    /\ Len(govs) < MaxGov
    /\ govs' = Append(govs, NewGovernor(agent_id, secret_key, liability_link))
    /\ ret' = [op |-> "__init__", g |-> Len(govs) + 1]
    /\ UNCHANGED <<traces, seq, tampers, calls>>

\* declare_intent(objective)
DeclareIntent(g, objective) ==
    /\ govs' = [govs EXCEPT ![g].intent_declared = Some(objective)]
    /\ ret' = [op |-> "declare_intent", g |-> g, objective |-> objective]
    /\ UNCHANGED <<traces, seq, tampers, calls>>

\* Variant of AssignRisk: the evaluation consumes the declared intent.
AssignRisk_consuming(g) ==
    /\ ret' = [op |-> "assign_risk", g |-> g, out |-> assign_risk(govs[g], traces)]
    /\ govs' = [govs EXCEPT ![g].intent_declared = None]
    /\ UNCHANGED <<traces, seq, tampers, calls>>

\* assign_risk()
AssignRisk(g) ==
    /\ ret' = [op |-> "assign_risk", g |-> g, out |-> assign_risk(govs[g], traces)]
    /\ UNCHANGED <<govs, traces, seq, tampers, calls>>

\* verify_audit_integrity()
VerifyAuditIntegrity(g) ==
    /\ ret' = [op |-> "verify_audit_integrity", g |-> g,
               out |-> verify_audit_integrity(govs[g], traces),
               examined |-> RowsExamined(govs[g], traces),
               reported |-> ReportedSequences(govs[g], traces)]
    /\ UNCHANGED <<govs, traces, seq, tampers, calls>>

\* Variant of ExecuteBlocked: the refused action is traced before the raise.
ExecuteBlocked_logged(g, action_name, payload) ==
    /\ Len(traces) < MaxLedger
    /\ traces' = InsertRow(traces, seq,
            SignedTrace(govs[g], action_name, payload, "BLOCKED", 1, "n1"))
    /\ seq' = seq + 1
    /\ ret' = [op |-> "execute_action", g |-> g, action |-> action_name,
               payload |-> payload, raised |-> "PermissionError",
               out |-> "", risk |-> WILD, inserts |-> 0, committed |-> FALSE]
    /\ UNCHANGED <<govs, tampers, calls>>

\* execute_action refused: raise PermissionError before anything is written.
ExecuteBlocked(g, action_name, payload) ==
    /\ ret' = [op |-> "execute_action", g |-> g, action |-> action_name,
               payload |-> payload, raised |-> "PermissionError",
               out |-> "", risk |-> WILD, inserts |-> 0, committed |-> FALSE]
    /\ UNCHANGED <<govs, traces, seq, tampers, calls>>

\* Variant of ExecuteTrace: a failed INSERT is not rolled back, so the row
\* stays in the table although the call raises.
ExecuteTrace_not_rolled_back(g, action_name, payload, t, nonce, ok) ==
    LET result == ActionResult(action_name)
        row == SignedTrace(govs[g], action_name, payload, result, t, nonce)
    IN  /\ Len(traces) < MaxLedger
        /\ traces' = InsertRow(traces, seq, row)
        /\ seq' = seq + 1
        /\ ret' = [op |-> "execute_action", g |-> g, action |-> action_name,
                   payload |-> payload,
                   raised |-> IF ok THEN "" ELSE "OperationalError",
                   out |-> IF ok THEN result ELSE "",
                   risk |-> assign_risk(govs[g], traces'),
                   inserts |-> 1, committed |-> ok]
        /\ UNCHANGED <<govs, tampers, calls>>

\* execute_action past the gate: _generate_trace with the INSERT committed
\* (ok) or failed and rolled back by the connection's context manager, then
\* the status line's second assign_risk and the return of result.  In ret,
\* risk is the level the call's last assign_risk returned, inserts the number
\* of INSERT statements the call issued, committed whether its row is stored.
ExecuteTrace(g, action_name, payload, t, nonce, ok) ==
    LET result == ActionResult(action_name)
        row == SignedTrace(govs[g], action_name, payload, result, t, nonce)
        table == IF ok THEN InsertRow(traces, seq, row) ELSE traces
    IN  /\ ok => Len(traces) < MaxLedger
        /\ traces' = table
        /\ seq' = NextSeq(seq, ok)
        /\ ret' = [op |-> "execute_action", g |-> g, action |-> action_name,
                   payload |-> payload,
                   raised |-> IF ok THEN "" ELSE "OperationalError",
                   out |-> IF ok THEN result ELSE "",
                   risk |-> IF ok THEN assign_risk(govs[g], table)
                                  ELSE assign_risk(govs[g], traces),
                   inserts |-> 1, committed |-> ok]
        /\ UNCHANGED <<govs, tampers, calls>>

\* execute_action(action_name, payload)
ExecuteAction(g, action_name, payload) ==
    IF assign_risk(govs[g], traces) = WILD
    THEN ExecuteBlocked(g, action_name, payload)
    ELSE \E t \in Times, nonce \in Nonces, ok \in BOOLEAN :
            ExecuteTrace(g, action_name, payload, t, nonce, ok)

Next ==
    \/ \E c \in CtorArgs : Construct(c[1], c[2], c[3])
    \/ \E g \in 1..Len(govs), o \in Objectives : DeclareIntent(g, o)
    \/ \E g \in 1..Len(govs) : AssignRisk(g)
    \/ \E g \in 1..Len(govs) : VerifyAuditIntegrity(g)
    \/ \E g \in 1..Len(govs), a \in ActionNames, p \in Payloads : ExecuteAction(g, a, p)

Spec == Init /\ [][Next]_vars

---------------------------------------------------------------------------
(* The stored table altered directly, behind the governors' back *)

\* One character of a stored payload is changed ("p" to "q", or back).
AlterString(str) == IF str = "p" THEN "q" ELSE "p"

\* The stored record with one character of its payload changed.
AlterRecord(text) ==
    [j \in 1..Len(text) |->
        IF text[j][1] = "pay" THEN <<"pay", AlterString(text[j][2])>> ELSE text[j]]

\* The stored signature with one of its hex characters changed (or restored).
AlterSignature(sig) == [sig EXCEPT !.flips = 1 - @]

\* UPDATE traces SET entry = ... WHERE rowid = i, issued outside the governor.
TamperRecord(i) ==
    /\ tampers < MaxTamper
    /\ traces' = [traces EXCEPT ![i].entry = AlterRecord(@)]
    /\ tampers' = tampers + 1
    /\ ret' = [op |-> "tamper", row |-> i]
    /\ UNCHANGED <<govs, seq, calls>>

\* UPDATE traces SET signature = ... WHERE rowid = i, issued outside the governor.
TamperSignature(i) ==
    /\ tampers < MaxTamper
    /\ traces' = [traces EXCEPT ![i].signature = AlterSignature(@)]
    /\ tampers' = tampers + 1
    /\ ret' = [op |-> "tamper", row |-> i]
    /\ UNCHANGED <<govs, seq, calls>>

\* The stores the alterations are explored on: two governors constructed on
\* an empty store, under one key and under two keys.
TamperStores ==
    { <<NewGovernor("a1", "k1", None), NewGovernor("a2", "k1", Some("L1"))>>,
      <<NewGovernor("a1", "k1", None), NewGovernor("a2", "k2", None)>> }

TamperObjectives == {"x"}

TamperInit ==
    /\ govs \in TamperStores
    /\ traces = << >>
    /\ seq = 0
    /\ ret = [op |-> "start"]
    /\ tampers = 0
    /\ calls = << >>

TamperNext ==
    \/ \E g \in 1..Len(govs), o \in TamperObjectives : DeclareIntent(g, o)
    \/ \E g \in 1..Len(govs) : VerifyAuditIntegrity(g)
    \/ \E g \in 1..Len(govs), a \in ActionNames, p \in Payloads : ExecuteAction(g, a, p)
    \/ \E i \in 1..Len(traces) : TamperRecord(i)
    \/ \E i \in 1..Len(traces) : TamperSignature(i)

TamperSpec == TamperInit /\ [][TamperNext]_vars

---------------------------------------------------------------------------
(* Concurrent callers: execute_action step by step *)

\* A caller is at one of these places:
\*   "idle"      no call made yet
\*   "gate"      execute_action entered, before assign_risk reads intent_declared
\*   "count"     inside assign_risk, before SELECT COUNT(*)
\*   "trace"     past the gate, before _generate_trace's INSERT
\*   "report"    row committed, before the status line's assign_risk
\*   "blocked"   the call raised PermissionError
\*   "failed"    the call raised the INSERT's OperationalError
\*   "returned"  the call returned its result
\* and, for verify_audit_integrity,
\*   "scan"        SELECT issued, the loop is about to fetch row pos
\*   "verified"    the call returned True
\*   "compromised" the call returned False
Resting == {"idle", "blocked", "failed", "returned", "verified", "compromised"}

\* A caller outside a call, at place pc.
AtRest(pc) == [pc |-> pc, g |-> 0, action |-> "", payload |-> "", pos |-> 0]

\* A verify_audit_integrity call has its SELECT open: it holds the shared
\* lock of the database file, under which no INSERT can commit.
ScanOpen == \E c \in 1..MaxCalls : calls[c].pc = "scan"

\* The store the callers share: two governors under one key.
ConcStores ==
    { <<NewGovernor("a1", "k1", None), NewGovernor("a2", "k1", Some("L1"))>> }

ConcActionNames == {"A"}

ConcInit ==
    /\ govs \in ConcStores
    /\ traces = << >>
    /\ seq = 0
    /\ ret = [op |-> "start"]
    /\ tampers = 0
    /\ calls = [c \in 1..MaxCalls |-> AtRest("idle")]

\* A caller enters execute_action(action_name, payload) on governor g.
Begin(c, g, action_name, payload) ==
    /\ calls[c].pc \in Resting
    /\ calls' = [calls EXCEPT ![c] =
            [pc |-> "gate", g |-> g, action |-> action_name, payload |-> payload,
             pos |-> 0]]
    /\ UNCHANGED <<govs, traces, seq, ret, tampers>>

\* assign_risk reads self.intent_declared; WILD makes execute_action raise.
Gate(c) ==
    /\ calls[c].pc = "gate"
    /\ calls' = [calls EXCEPT ![c] =
            IF ~Truthy(govs[calls[c].g].intent_declared)
            THEN AtRest("blocked")
            ELSE [@ EXCEPT !.pc = "count"]]
    /\ UNCHANGED <<govs, traces, seq, ret, tampers>>

\* assign_risk reads COUNT(*); whatever it finds, the level is not WILD.
Count(c) ==
    /\ calls[c].pc = "count"
    /\ assign_risk(govs[calls[c].g], traces) \in {WILD, DECLARED, TRACEABLE, LIABLE}
    /\ calls' = [calls EXCEPT ![c].pc = "trace"]
    /\ UNCHANGED <<govs, traces, seq, ret, tampers>>

\* _generate_trace: the record is built and signed, and the INSERT commits in
\* one transaction (ok) or fails and is rolled back.  While a SELECT of
\* verify_audit_integrity is open the commit cannot get the exclusive lock:
\* the INSERT waits, or fails when the wait times out.
Trace(c, t, nonce, ok) ==
    LET self == govs[calls[c].g]
        row == SignedTrace(self, calls[c].action, calls[c].payload,
                           ActionResult(calls[c].action), t, nonce)
    IN  /\ calls[c].pc = "trace"
        /\ ok => Len(traces) < MaxLedger
        /\ ok => ~ScanOpen
        /\ traces' = IF ok THEN InsertRow(traces, seq, row) ELSE traces
        /\ seq' = NextSeq(seq, ok)
        /\ calls' = [calls EXCEPT ![c] =
                IF ok THEN [@ EXCEPT !.pc = "report"] ELSE AtRest("failed")]
        /\ UNCHANGED <<govs, ret, tampers>>

\* The status line's assign_risk, then `return result`.
Report(c) ==
    /\ calls[c].pc = "report"
    /\ assign_risk(govs[calls[c].g], traces) \in {WILD, DECLARED, TRACEABLE, LIABLE}
    /\ calls' = [calls EXCEPT ![c] = AtRest("returned")]
    /\ UNCHANGED <<govs, traces, seq, ret, tampers>>

\* A caller enters verify_audit_integrity on governor g: SELECT entry,
\* signature FROM traces.
ScanBegin(c, g) ==
    /\ calls[c].pc \in Resting
    /\ calls' = [calls EXCEPT ![c] =
            [pc |-> "scan", g |-> g, action |-> "", payload |-> "", pos |-> 1]]
    /\ UNCHANGED <<govs, traces, seq, ret, tampers>>

\* One turn of the loop: the cursor is exhausted (return True), or row pos is
\* fetched and its signature recomputed (return False if it differs).
ScanRow(c) ==
    LET self == govs[calls[c].g]
        i == calls[c].pos
    IN  /\ calls[c].pc = "scan"
        /\ calls' = [calls EXCEPT ![c] =
                IF i > Len(traces) THEN AtRest("verified")
                ELSE IF ~compare_digest(SignPayload(self, traces[i].entry),
                                        traces[i].signature)
                     THEN AtRest("compromised")
                ELSE [@ EXCEPT !.pos = i + 1]]
        /\ UNCHANGED <<govs, traces, seq, ret, tampers>>

ConcNext ==
    \/ \E g \in 1..Len(govs), o \in Objectives : DeclareIntent(g, o)
    \/ \E c \in 1..MaxCalls, g \in 1..Len(govs), a \in ConcActionNames, p \in Payloads :
            Begin(c, g, a, p)
    \/ \E c \in 1..MaxCalls : Gate(c)
    \/ \E c \in 1..MaxCalls : Count(c)
    \/ \E c \in 1..MaxCalls, t \in Times, nonce \in Nonces, ok \in BOOLEAN :
            Trace(c, t, nonce, ok)
    \/ \E c \in 1..MaxCalls : Report(c)
    \/ \E c \in 1..MaxCalls, g \in 1..Len(govs) : ScanBegin(c, g)
    \/ \E c \in 1..MaxCalls : ScanRow(c)

ConcSpec == ConcInit /\ [][ConcNext]_vars

---------------------------------------------------------------------------
(* Vocabulary of the properties *)

\* The governor the last call was made on.
Self == govs[ret.g]

\* An Optional[str] field that holds a value (any string, "" included).
IsSet(o) == o # None

\* The governor has a liability link: a reference to a liability record,
\* that is, a string that is not empty.
HasLink(self) == self.liability_link \notin {None, Some("")}

\* Row i carries the signature the key `secret` gives its stored record.
RowValid(secret, row) == row.signature = HmacSha256(secret, row.entry)

\* s is a prefix of t.
IsPrefix(s, t) == Len(s) <= Len(t) /\ SubSeq(t, 1, Len(s)) = s

Blocked == ret.op = "execute_action" /\ ret.raised = "PermissionError"
Succeeded == ret.op = "execute_action" /\ ret.raised = ""

---------------------------------------------------------------------------
(* C1 *)

\* C1: while intent_declared is None (declare_intent was never called on the
\* governor), assign_risk returns WILD and execute_action raises
\* PermissionError, whatever the ledger holds and whatever the liability link.
C1_UndeclaredIsBlocked ==
    /\ (ret.op = "assign_risk" /\ Self.intent_declared = None) => ret.out = WILD
    /\ (ret.op = "execute_action" /\ Self.intent_declared = None) =>
            ret.raised = "PermissionError"

\* A refusal on a non-empty ledger, of a governor that has a liability link.
C1_Witness ==
    /\ Blocked
    /\ Self.intent_declared = None
    /\ Len(traces) >= 1
    /\ Self.liability_link = Some("L1")

---------------------------------------------------------------------------
(* C2 *)

\* C2: an execute_action refused with PermissionError changes nothing: the
\* table keeps the same rows, and no field of any governor changes.
C2_BlockedMutatesNothing ==
    [][(ret'.op = "execute_action" /\ ret'.raised = "PermissionError") =>
            (traces' = traces /\ seq' = seq /\ govs' = govs)]_vars

\* A refusal that found rows in the ledger.
C2_Witness == Blocked /\ Len(traces) >= 2

---------------------------------------------------------------------------
(* C3 *)

\* C3 as stated: after every execute_action that returns, the ledger holds
\* exactly one row more and verify_audit_integrity on the same governor
\* returns True (stated here for stores whose governors all hold a non-empty
\* key, the case in which every row is signed with a proper key).
C3_AsStated ==
    [][(/\ ret'.op = "execute_action" /\ ret'.raised = ""
        /\ \A g \in 1..Len(govs) : govs[g].secret # "") =>
            /\ Len(traces') = Len(traces) + 1
            /\ verify_audit_integrity(govs'[ret'.g], traces')]_vars

\* C3 amended: after every execute_action that returns, the ledger is the old
\* ledger plus exactly one row, that row verifies under the governor's key,
\* and verify_audit_integrity on the same governor returns True exactly when
\* every row already in the ledger before the call verifies under that key.
C3_OneValidRowAppended ==
    [][(ret'.op = "execute_action" /\ ret'.raised = "") =>
            /\ Len(traces') = Len(traces) + 1
            /\ IsPrefix(traces, traces')
            /\ RowValid(govs[ret'.g].secret, traces'[Len(traces')])
            /\ verify_audit_integrity(govs'[ret'.g], traces') =
                    (\A i \in 1..Len(traces) : RowValid(govs[ret'.g].secret, traces[i]))]_vars

\* A call that returned on a ledger that already held rows and verifies.
C3_Witness ==
    /\ Succeeded
    /\ Len(traces) >= 2
    /\ verify_audit_integrity(Self, traces)

---------------------------------------------------------------------------
(* C4 *)

\* C4: assign_risk returns WILD if intent_declared is unset; else DECLARED if
\* the ledger is empty; else TRACEABLE if there is no liability link; else
\* LIABLE.
C4_DecisionList ==
    ret.op = "assign_risk" =>
        ret.out = IF ~IsSet(Self.intent_declared) THEN WILD
                  ELSE IF Len(traces) = 0 THEN DECLARED
                  ELSE IF ~HasLink(Self) THEN TRACEABLE
                  ELSE LIABLE

---------------------------------------------------------------------------
(* C5 *)

\* The positions of the rows that do not carry the signature of `secret`.
Corrupt(secret) == {i \in 1..Len(traces) : ~RowValid(secret, traces[i])}

\* C5: verify_audit_integrity returns True if and only if every row of the
\* ledger carries the MAC of its stored record under the verifying governor's
\* key; so it returns True on the empty ledger and False once the record or
\* the signature of any one row has been altered.
C5_VerifyIffAllSigned ==
    ret.op = "verify_audit_integrity" =>
        /\ ret.out = (\A i \in 1..Len(traces) : RowValid(Self.secret, traces[i]))
        /\ Len(traces) = 0 => ret.out = TRUE
        /\ Cardinality(Corrupt(Self.secret)) = 1 => ret.out = FALSE

\* A verification that fails on a ledger of three rows of which only the
\* middle one was altered.
C5_Witness ==
    /\ ret.op = "verify_audit_integrity"
    /\ ret.out = FALSE
    /\ tampers = 1
    /\ Len(traces) = 3
    /\ Corrupt(Self.secret) = {2}

---------------------------------------------------------------------------
(* C6 *)

\* C6 as stated: with exactly one corrupted row, verify_audit_integrity
\* reports a violation that names exactly that row's sequence number (stated
\* here for a ledger written under one non-empty key, one row of which was
\* altered in storage).
C6_AsStated ==
    (/\ ret.op = "verify_audit_integrity"
     /\ tampers = 1
     /\ \A g \in 1..Len(govs) : govs[g].secret = Self.secret /\ govs[g].secret # ""
     /\ Cardinality(Corrupt(Self.secret)) = 1) =>
        ret.reported = {traces[i].id : i \in Corrupt(Self.secret)}

\* C6 amended: with exactly one corrupted row, verify_audit_integrity returns
\* False and names no sequence number; its scan stops at exactly that row,
\* every row before it having verified.
C6_StopsAtCorruptRow ==
    (ret.op = "verify_audit_integrity" /\ Cardinality(Corrupt(Self.secret)) = 1) =>
        /\ ret.out = FALSE
        /\ ret.reported = {}
        /\ Corrupt(Self.secret) = {ret.examined}

\* A verification of three rows of which only the first was altered.
C6_Witness ==
    /\ ret.op = "verify_audit_integrity"
    /\ tampers = 1
    /\ Len(traces) = 3
    /\ Corrupt(Self.secret) = {1}
    /\ ret.examined = 1

---------------------------------------------------------------------------
(* C7 *)

\* C7: the ledger is append-only: over every call on any governor of the
\* store the old table is a prefix of the new one (same rowids, same records,
\* same signatures).
C7_AppendOnly == [][IsPrefix(traces, traces')]_vars

\* Two governors on the store, and rows written.
C7_Witness ==
    /\ Len(govs) = 2
    /\ Len(traces) >= 2
    /\ JsonGet(traces[1].entry, "aid") # JsonGet(traces[2].entry, "aid")

---------------------------------------------------------------------------
(* C8 *)

\* C8: under every interleaving of execute_action calls on the store, blocked
\* and failed ones included, the rowids of the ledger are unique, strictly
\* increasing in insertion order and without gaps.
C8_SequenceGapFree ==
    /\ \A i, j \in 1..Len(traces) : i < j => traces[i].id < traces[j].id
    /\ \A i \in 1..Len(traces) : i < Len(traces) => traces[i + 1].id = traces[i].id + 1

\* Rows of both governors, written around one call that failed and one that
\* was refused.
C8_Witness ==
    /\ Len(traces) = 3
    /\ \E c, d \in 1..MaxCalls : calls[c].pc = "failed" /\ calls[d].pc = "blocked"
    /\ JsonGet(traces[1].entry, "aid") # JsonGet(traces[3].entry, "aid")

---------------------------------------------------------------------------
(* C9 *)

\* C9: on an empty ledger a new governor is WILD; after declare_intent("x")
\* it is DECLARED; after its one execute_action it is TRACEABLE without a
\* liability link and LIABLE with the link "L1" (both as assign_risk returns
\* it and as execute_action's status line reports it).
C9_Scenario ==
    LET lone == Len(traces) = 1 /\ JsonGet(traces[1].entry, "aid") = Self.agent_id
        level == IF Self.liability_link = None THEN TRACEABLE ELSE LIABLE
    IN  /\ (ret.op = "assign_risk" /\ Len(traces) = 0 /\ Self.intent_declared = None) =>
                ret.out = WILD
        /\ (ret.op = "assign_risk" /\ Len(traces) = 0 /\ Self.intent_declared = Some("x")) =>
                ret.out = DECLARED
        /\ ((ret.op = "assign_risk" \/ Succeeded) /\ lone
                /\ Self.intent_declared = Some("x")
                /\ Self.liability_link \in {None, Some("L1")}) =>
                (IF ret.op = "assign_risk" THEN ret.out ELSE ret.risk) = level

\* Scenario B at its end: one governor with the link, one row, LIABLE.
C9_Witness ==
    /\ ret.op = "assign_risk"
    /\ Len(govs) = 1
    /\ Len(traces) = 1
    /\ Self.liability_link = Some("L1")
    /\ ret.out = LIABLE

---------------------------------------------------------------------------
(* C10 *)

\* C10: no governor holds an empty signing key, and no row of the ledger is
\* signed with one.
C10_NoEmptyKey ==
    /\ \A g \in 1..Len(govs) : govs[g].secret # ""
    /\ \A i \in 1..Len(traces) : traces[i].signature.key # ""

---------------------------------------------------------------------------
(* C11 *)

\* C11: when the INSERT of the signed trace fails, execute_action raises the
\* storage error instead of returning the result, the ledger and its rowid
\* counter are exactly as before the call (no partial row, no new row), and
\* the call issued that one INSERT only (no retry).
C11_FailedAppendIsAllOrNothing ==
    [][(ret'.op = "execute_action" /\ ret'.inserts > 0 /\ ~ret'.committed) =>
            /\ ret'.raised = "OperationalError"
            /\ ret'.out = ""
            /\ ret'.inserts = 1
            /\ traces' = traces
            /\ seq' = seq]_vars

\* A failed append on a ledger that already holds rows.
C11_Witness ==
    /\ ret.op = "execute_action"
    /\ ret.raised = "OperationalError"
    /\ ~ret.committed
    /\ Len(traces) >= 1

---------------------------------------------------------------------------
(* C12 *)

\* C12: once declare_intent has been called on a governor, intent is never
\* cleared: intent_declared stays set over every later call, assign_risk on
\* that governor never returns WILD again, and execute_action on it is never
\* refused again.
C12_IntentNeverCleared ==
    [][\A g \in 1..Len(govs) :
            IsSet(govs[g].intent_declared) =>
                /\ IsSet(govs'[g].intent_declared)
                /\ (ret'.op = "assign_risk" /\ ret'.g = g) => ret'.out # WILD
                /\ (ret'.op = "execute_action" /\ ret'.g = g) =>
                        ret'.raised # "PermissionError"]_vars

---------------------------------------------------------------------------
(* C13 *)

\* C13: immediately after any declare_intent(objective), the empty objective
\* included, intent counts as declared: intent_declared holds the objective,
\* assign_risk would not return WILD and execute_action would not be refused.
C13_AnyObjectiveDeclares ==
    ret.op = "declare_intent" =>
        /\ Self.intent_declared = Some(ret.objective)
        /\ assign_risk(Self, traces) # WILD

---------------------------------------------------------------------------
(* C14 *)

\* C14: for a governor that has a liability link, assign_risk never returns
\* TRACEABLE: it returns WILD, DECLARED or LIABLE only, and never DECLARED
\* once the ledger holds a row; the number of rows never decreases.
C14_LinkedNeverTraceable ==
    [][/\ Len(traces') >= Len(traces)
       /\ (ret'.op = "assign_risk" /\ HasLink(govs'[ret'.g])) =>
            /\ ret'.out \in {WILD, DECLARED, LIABLE}
            /\ Len(traces) > 0 => ret'.out # DECLARED]_vars

\* A governor with a link that reports LIABLE on a ledger of two rows.
C14_Witness ==
    /\ ret.op = "assign_risk"
    /\ HasLink(Self)
    /\ ret.out = LIABLE
    /\ Len(traces) >= 2

---------------------------------------------------------------------------
(* C15 *)

\* C15: the risk check and the append of execute_action act as one atomic
\* unit: under every interleaving of callers' steps and declare_intent calls,
\* no row is appended at a moment when the appending governor's risk level,
\* evaluated on the state the append finds, is WILD.
C15_NoAppendWhileWild ==
    [][\A c \in 1..MaxCalls :
            (calls[c].pc = "trace" /\ calls'[c].pc = "report") =>
                assign_risk(govs[calls[c].g], traces) # WILD]_vars

---------------------------------------------------------------------------
(* C16 *)

\* C16: a verify_audit_integrity scan that runs while execute_action calls
\* of governors holding the same key are in progress never reports a false
\* mismatch: with every governor of the store under one key, every row a scan
\* fetches is complete and carries its signature, and no scan returns False.
C16_NoFalseMismatch ==
    (\A g, h \in 1..Len(govs) : govs[g].secret = govs[h].secret) =>
        /\ \A c \in 1..MaxCalls : calls[c].pc # "compromised"
        /\ \A c \in 1..MaxCalls :
                (calls[c].pc = "scan" /\ calls[c].pos <= Len(traces)) =>
                    RowValid(govs[calls[c].g].secret, traces[calls[c].pos])

\* A scan that has fetched and accepted rows and is still open while another
\* caller is between its risk check and its INSERT.
C16_Witness ==
    /\ Len(traces) >= 2
    /\ \E c, d \in 1..MaxCalls :
            /\ calls[c].pc = "scan"
            /\ calls[c].pos >= 2
            /\ calls[d].pc = "trace"

---------------------------------------------------------------------------
(* C17 *)

\* C17: assign_risk and verify_audit_integrity are read-only: a call leaves
\* the ledger rows, the sequence counter and every governor's agent_id,
\* liability_link and intent_declared as they were, and a call that follows
\* directly on a call of the same operation on the same governor returns the
\* same result.
C17_ReadOnly ==
    [][ret'.op \in {"assign_risk", "verify_audit_integrity"} =>
            /\ govs' = govs
            /\ traces' = traces
            /\ seq' = seq
            /\ ret'.out = IF ret'.op = "assign_risk"
                          THEN assign_risk(govs[ret'.g], traces)
                          ELSE verify_audit_integrity(govs[ret'.g], traces)
            /\ (ret.op = ret'.op /\ ret.g = ret'.g) => ret'.out = ret.out]_vars

\* assign_risk has been evaluated on a governor with declared intent over a
\* ledger that holds rows.
C17_Witness ==
    /\ ret.op = "assign_risk"
    /\ ret.out >= TRACEABLE
    /\ Len(traces) >= 2
    /\ IsSet(Self.intent_declared)

---------------------------------------------------------------------------
(* C18 *)

\* The rows of the ledger agree in everything a caller passes in (action,
\* payload) and in liability link, time and nonce.
SameRequest(r1, r2) ==
    \A k \in {"act", "pay", "lib", "res", "t", "nonce"} :
        JsonGet(r1.entry, k) = JsonGet(r2.entry, k)

\* C18: a successful execute_action(action_name, payload) on governor G
\* returns "OK_" + action_name with exactly one row appended, whose record
\* has act = action_name, aid = G.agent_id, pay = payload,
\* lib = G.liability_link and res = the digest of the returned result, and
\* whose signature is the MAC of that record under G's secret; and no two rows
\* written for different agent ids hold the same record or the same
\* signature.
C18_RecordContents ==
    [][/\ (ret'.op = "execute_action" /\ ret'.raised = "") =>
            LET G == govs[ret'.g]
                row == traces'[Len(traces')]
            IN  /\ Len(traces') = Len(traces) + 1
                /\ SubSeq(traces', 1, Len(traces)) = traces
                /\ ret'.out = "OK_" \o ret'.action
                /\ JsonGet(row.entry, "act") = ret'.action
                /\ JsonGet(row.entry, "aid") = G.agent_id
                /\ JsonGet(row.entry, "pay") = ret'.payload
                /\ JsonGet(row.entry, "lib") = G.liability_link
                /\ JsonGet(row.entry, "res") = Sha256(ret'.out)
                /\ row.signature = HmacSha256(G.secret, row.entry)
       /\ \A i, j \in 1..Len(traces') :
            JsonGet(traces'[i].entry, "aid") # JsonGet(traces'[j].entry, "aid") =>
                /\ traces'[i].entry # traces'[j].entry
                /\ traces'[i].signature # traces'[j].signature]_vars

\* Two governors with the same secret and different agent ids have each
\* executed the same action with the same payload.
C18_Witness ==
    /\ Succeeded
    /\ \E i, j \in 1..Len(traces) :
            /\ JsonGet(traces[i].entry, "aid") # JsonGet(traces[j].entry, "aid")
            /\ SameRequest(traces[i], traces[j])
            /\ traces[i].signature.key = traces[j].signature.key
            /\ traces[i].signature.key # ""

---------------------------------------------------------------------------
(* C19 *)

\* C19: the history belongs to the store, not to the session: over a ledger
\* that already holds a row no governor is reported DECLARED, and the first
\* declare_intent of a governor on such a store takes it from WILD to
\* TRACEABLE (no liability link) or LIABLE (liability link), without that
\* governor having executed anything.
C19_FirstIntentSkipsDeclared ==
    [][/\ (ret'.op = "assign_risk" /\ Len(traces') >= 1) => ret'.out # DECLARED
       /\ (/\ ret'.op = "declare_intent"
           /\ ~IsSet(govs[ret'.g].intent_declared)
           /\ Len(traces) >= 1) =>
                /\ assign_risk(govs[ret'.g], traces) = WILD
                /\ assign_risk(govs'[ret'.g], traces') =
                        IF HasLink(govs'[ret'.g]) THEN LIABLE ELSE TRACEABLE]_vars

---------------------------------------------------------------------------
(* C20 *)

\* The ledger holds a row that governor g wrote: it names g's agent id and
\* is signed under g's secret.
Executed(g) ==
    \E i \in 1..Len(traces) :
        /\ JsonGet(traces[i].entry, "aid") = govs[g].agent_id
        /\ RowValid(govs[g].secret, traces[i])

\* Two governors of the store hold different secrets and both have written.
MixedKeys(g, h) ==
    /\ govs[g].secret # govs[h].secret
    /\ Executed(g)
    /\ Executed(h)

\* C20: when two governors with different secrets write to one store, each
\* one's verification covers the other's rows: once both have executed an
\* action, verify_audit_integrity is False on both, it is what a call
\* returns, and it is still False after any later operation.
C20_MixedKeysNeverVerify ==
    [][\A g, h \in 1..Len(govs) :
            MixedKeys(g, h) =>
                /\ ~verify_audit_integrity(govs[g], traces)
                /\ ~verify_audit_integrity(govs[h], traces)
                /\ ~verify_audit_integrity(govs'[g], traces')
                /\ ~verify_audit_integrity(govs'[h], traces')
                /\ (ret'.op = "verify_audit_integrity" /\ ret'.g \in {g, h}) =>
                        ret'.out = FALSE]_vars

\* Both governors have executed, a third row has been appended since, and
\* verify_audit_integrity has returned False.
C20_Witness ==
    /\ ret.op = "verify_audit_integrity"
    /\ ret.out = FALSE
    /\ Len(traces) = 3
    /\ \E h \in 1..Len(govs) : MixedKeys(ret.g, h)

====
